---- MODULE Spec2Model ----
(***************************************************************************)
(* A model of src/conversion.py: the RAWG CSV -> Turtle converter.         *)
(*                                                                         *)
(* A Python str is a sequence of one-character strings.  A DataFrame cell  *)
(* is a record [na, s]: na is what pd.isna answers for the cell (NaN and   *)
(* None alike) and s is the str() of its typed value.  The character       *)
(* "U+00E9" stands for the single non-ASCII letter e-acute.                *)
(***************************************************************************)
EXTENDS Naturals, Integers, Sequences, FiniteSets, TLC

VARIABLES
    readable,     \* can pd.read_csv open and parse the source?
    columns,      \* the columns named by the source's header row
    source,       \* the lines of the source, in file order, as text fields
    limit,        \* generate's limit argument: <<>> is None, <<n>> is n
    pc,           \* position of generate_ttl_from_rawg_dataset
    df,           \* the rows of the DataFrame after the optional head(limit)
    idx,          \* position of the running "for index, row in df.iterrows()"
    sets,         \* the five *_set variables, by category
    ttl_content,  \* the accumulated output, a sequence of blocks
    gameRows,     \* history: the df row each emitted game block came from
    file,         \* the destination file: [exists, text]
    writes,       \* history: how many times the destination was written
    fin,          \* argument of the pure function under call
    fout,         \* its result
    fpc           \* "idle", "call" or "ret"

genVars == <<readable, columns, source, limit, pc, df, idx, sets,
             ttl_content, gameRows, file, writes>>
funVars == <<fin, fout, fpc>>
vars == <<readable, columns, source, limit, pc, df, idx, sets,
          ttl_content, gameRows, file, writes, fin, fout, fpc>>

----------------------------------------------------------------------------
(* Bounds of the model.                                                    *)

MaxRows == 2
MaxParseLen == 4
MaxCleanLen == 3

----------------------------------------------------------------------------
(* Characters and Python's str primitives.                                 *)

Digits == {"0", "1", "2", "3", "4", "5", "6", "7", "8", "9"}

AsciiLetters ==
    {"a", "b", "c", "d", "e", "h", "m", "o", "r", "t", "u", "x", "y",
     "A", "B", "C", "E", "G", "M", "P", "R", "T", "X"}

NonAsciiLetters == {"U+00E9"}

\* str.isspace / the regex class \s
IsSpace(c) == c \in {" ", "\t", "\n", "\r"}

\* the regex class \w
IsWord(c) == c \in AsciiLetters \cup NonAsciiLetters \cup Digits \cup {"_"}

\* str.strip()
RECURSIVE LStrip(_)
LStrip(s) ==
    IF s # <<>> /\ IsSpace(Head(s)) THEN LStrip(Tail(s)) ELSE s

RECURSIVE RStrip(_)
RStrip(s) ==
    IF s # <<>> /\ IsSpace(s[Len(s)]) THEN RStrip(SubSeq(s, 1, Len(s) - 1)) ELSE s

Strip(s) == LStrip(RStrip(s))

\* the index of the first "||" in s, or 0: str.find('||') + 1
FindDelim(s) ==
    LET hits == {k \in 1..(Len(s) - 1) : s[k] = "|" /\ s[k + 1] = "|"}
    IN  IF hits = {} THEN 0 ELSE CHOOSE k \in hits : \A j \in hits : k <= j

\* '||' in s
HasDelim(s) == FindDelim(s) # 0

\* s.split('||'): leftmost, non-overlapping occurrences
RECURSIVE Split(_)
Split(s) ==
    LET k == FindDelim(s)
    IN  IF k = 0 THEN <<s>>
        ELSE <<SubSeq(s, 1, k - 1)>> \o Split(SubSeq(s, k + 2, Len(s)))

\* s.replace(c, rep) for a one-character c
RECURSIVE Replace(_, _, _)
Replace(s, c, rep) ==
    IF s = <<>> THEN <<>>
    ELSE (IF Head(s) = c THEN rep ELSE <<Head(s)>>) \o Replace(Tail(s), c, rep)

\* str.lower()
LowerChar(c) ==
    CASE c = "A" -> "a" [] c = "B" -> "b" [] c = "C" -> "c" [] c = "D" -> "d"
      [] c = "E" -> "e" [] c = "F" -> "f" [] c = "G" -> "g" [] c = "H" -> "h"
      [] c = "I" -> "i" [] c = "J" -> "j" [] c = "K" -> "k" [] c = "L" -> "l"
      [] c = "M" -> "m" [] c = "N" -> "n" [] c = "O" -> "o" [] c = "P" -> "p"
      [] c = "Q" -> "q" [] c = "R" -> "r" [] c = "S" -> "s" [] c = "T" -> "t"
      [] c = "U" -> "u" [] c = "V" -> "v" [] c = "W" -> "w" [] c = "X" -> "x"
      [] c = "Y" -> "y" [] c = "Z" -> "z" [] OTHER -> c

Lower(s) == [k \in 1..Len(s) |-> LowerChar(s[k])]

\* A cell that pd.isna accepts (NaN, or the None of row.get on an absent column)
NaN == [na |-> TRUE, s |-> <<>>]

\* A cell holding a value whose str() is s
Val(s) == [na |-> FALSE, s |-> s]

\* An optional str result: None, or Some(s)
None == [none |-> TRUE, s |-> <<>>]
Some(s) == [none |-> FALSE, s |-> s]

\* Python truthiness of an optional str: not None and not ""
Truthy(r) == ~r.none /\ r.s # <<>>

----------------------------------------------------------------------------
(* urllib.parse.quote with its default safe='/'.                           *)

Unreserved == (AsciiLetters \cup Digits) \cup {"_", ".", "-", "~", "/"}

PercentEncode(c) ==
    CASE c = "U+00E9" -> <<"%", "C", "3", "%", "A", "9">>
      [] c = " "  -> <<"%", "2", "0">>
      [] c = "!"  -> <<"%", "2", "1">>
      [] c = "\"" -> <<"%", "2", "2">>
      [] c = "&"  -> <<"%", "2", "6">>
      [] c = ":"  -> <<"%", "3", "A">>
      [] c = "|"  -> <<"%", "7", "C">>
      [] c = "\\" -> <<"%", "5", "C">>
      [] c = "\t" -> <<"%", "0", "9">>
      [] c = "\n" -> <<"%", "0", "A">>
      [] c = "\r" -> <<"%", "0", "D">>

RECURSIVE quote(_)
quote(s) ==
    IF s = <<>> THEN <<>>
    ELSE (IF Head(s) \in Unreserved THEN <<Head(s)>> ELSE PercentEncode(Head(s)))
         \o quote(Tail(s))

----------------------------------------------------------------------------
(* clean_uri_string, clean_literal_string, parse_delimited_field.          *)

\* a buggy class, [^\w\s], that also removes the hyphen
ProblematicNoHyphen(c) == ~(IsWord(c) \/ IsSpace(c))

\* the class [^\w\s-] of line 13: what re.sub removes
Problematic(c) == ~(IsWord(c) \/ IsSpace(c) \/ c = "-")

\* re.sub(r'[^\w\s-]', '', s)
RemoveProblematic(s) == SelectSeq(s, LAMBDA c : ~Problematic(c))

\* re.sub(r'\s+', '_', s)
RECURSIVE CollapseSpace(_)
CollapseSpace(s) ==
    IF s = <<>> THEN <<>>
    ELSE IF IsSpace(Head(s)) THEN <<"_">> \o CollapseSpace(LStrip(s))
    ELSE <<Head(s)>> \o CollapseSpace(Tail(s))

clean_uri_string(text) ==
    IF text.na \/ text.s = <<>> THEN None
    ELSE Some(quote(CollapseSpace(Strip(RemoveProblematic(text.s)))))

clean_literal_string(text) ==
    IF text.na \/ text.s = <<>> THEN None
    ELSE Some(Replace(Replace(Replace(text.s, "\"", <<"\\", "\"">>),
                              "\n", <<"\\", "n">>),
                      "\r", <<"\\", "r">>))

\* a buggy comprehension that drops the empty pieces but does not trim the rest
SplitValuesNoTrim(field_str) ==
    SelectSeq(Split(field_str), LAMBDA v : Strip(v) # <<>>)

\* line 40: [v.strip() for v in field_str.split('||') if v.strip()]
SplitValues(field_str) ==
    LET pieces == Split(field_str)
        kept == SelectSeq(pieces, LAMBDA v : Strip(v) # <<>>)
    IN  [k \in 1..Len(kept) |-> Strip(kept[k])]

\* the names of the dicts {'name': value} that parse_delimited_field returns
parse_delimited_field(field_value) ==
    IF field_value.na \/ field_value.s = <<>> \/ Strip(field_value.s) = <<>>
    THEN <<>>
    ELSE LET field_str == Strip(field_value.s)
             values == IF HasDelim(field_str) THEN SplitValues(field_str)
                       ELSE IF field_str # <<>> THEN <<field_str>> ELSE <<>>
         IN  SelectSeq(values, LAMBDA value : value # <<>>)

----------------------------------------------------------------------------
(* format_date, and the int(float(value)) of the integer metrics.          *)

AllDigits(s) == \A k \in 1..Len(s) : s[k] \in Digits

DigitVal(c) ==
    CASE c = "0" -> 0 [] c = "1" -> 1 [] c = "2" -> 2 [] c = "3" -> 3
      [] c = "4" -> 4 [] c = "5" -> 5 [] c = "6" -> 6 [] c = "7" -> 7
      [] c = "8" -> 8 [] c = "9" -> 9

\* the number a string of decimal digits denotes (0 for the empty string)
RECURSIVE Num(_)
Num(s) ==
    IF s = <<>> THEN 0
    ELSE 10 * Num(SubSeq(s, 1, Len(s) - 1)) + DigitVal(s[Len(s)])

DigitChar(d) == <<"0", "1", "2", "3", "4", "5", "6", "7", "8", "9">>[d + 1]

\* str(n) for an int n >= 0
RECURSIVE NatStr(_)
NatStr(n) ==
    IF n < 10 THEN <<DigitChar(n)>> ELSE NatStr(n \div 10) \o <<DigitChar(n % 10)>>

\* str(n) for an int n
IntStr(n) == IF n < 0 THEN <<"-">> \o NatStr(0 - n) ELSE NatStr(n)

IsLeap(y) == (y % 4 = 0 /\ y % 100 # 0) \/ y % 400 = 0

DaysIn(y, m) ==
    IF m = 2 THEN (IF IsLeap(y) THEN 29 ELSE 28)
    ELSE IF m \in {4, 6, 9, 11} THEN 30 ELSE 31

\* does datetime.strptime(s, '%Y-%m-%d') succeed?  %Y is four digits; %m and
\* %d are one or two digits (%d also a space and a digit); the date must exist
\* in the calendar.
StrptimeOk(s) ==
    /\ Len(s) >= 8
    /\ AllDigits(SubSeq(s, 1, 4))
    /\ s[5] = "-"
    /\ LET rest == SubSeq(s, 6, Len(s))
            dash == {k \in 1..Len(rest) : rest[k] = "-"}
        IN  /\ Cardinality(dash) = 1
            /\ LET k == CHOOSE j \in dash : TRUE
                    mm == SubSeq(rest, 1, k - 1)
                    dd == SubSeq(rest, k + 1, Len(rest))
                IN  /\ Len(mm) \in {1, 2} /\ AllDigits(mm)
                    /\ Len(dd) \in {1, 2} /\ AllDigits(LStrip(dd)) /\ LStrip(dd) # <<>>
                    /\ (dd # LStrip(dd) => dd[1] = " ")
                    /\ Num(SubSeq(s, 1, 4)) >= 1
                    /\ Num(mm) \in 1..12
                    /\ Num(LStrip(dd)) >= 1
                    /\ Num(LStrip(dd)) <= DaysIn(Num(SubSeq(s, 1, 4)), Num(mm))

format_date(date_str) ==
    IF date_str.na \/ date_str.s = <<>> THEN None
    ELSE IF StrptimeOk(date_str.s) THEN Some(date_str.s)
    ELSE None

\* The decimal forms float() accepts among the metric values of the model:
\* optional surrounding whitespace, an optional sign, digits with an optional
\* fraction.  (No metric value of the model uses an exponent, "inf", "nan" or
\* "_".)  Unsigned(s) is s without its sign.
Unsigned(s) == IF s # <<>> /\ Head(s) \in {"+", "-"} THEN Tail(s) ELSE s

IntPart(s) ==
    LET u == Unsigned(Strip(s))
        dots == {k \in 1..Len(u) : u[k] = "."}
    IN  IF dots = {} THEN u ELSE SubSeq(u, 1, (CHOOSE k \in dots : TRUE) - 1)

FracPart(s) ==
    LET u == Unsigned(Strip(s))
        dots == {k \in 1..Len(u) : u[k] = "."}
    IN  IF dots = {} THEN <<>> ELSE SubSeq(u, (CHOOSE k \in dots : TRUE) + 1, Len(u))

\* does float(s) succeed (no ValueError)?
FloatOk(s) ==
    LET u == Unsigned(Strip(s))
    IN  /\ Cardinality({k \in 1..Len(u) : u[k] = "."}) <= 1
        /\ AllDigits(IntPart(s)) /\ AllDigits(FracPart(s))
        /\ Len(IntPart(s)) + Len(FracPart(s)) >= 1

\* str(int(float(s))): truncation toward zero
IntOfFloat(s) ==
    LET n == Num(IntPart(s))
    IN  IF n # 0 /\ Head(Strip(s)) = "-" THEN IntStr(0 - n) ELSE IntStr(n)

----------------------------------------------------------------------------
(* The source: columns, rows and the limit.                                *)

AllColumns ==
    {"id", "name", "slug", "released", "website", "metacritic", "rating",
     "playtime", "achievements_count", "ratings_count", "suggestions_count",
     "game_series_count", "reviews_count", "added_status_yet",
     "added_status_owned", "added_status_beaten", "added_status_toplay",
     "added_status_dropped", "added_status_playing", "tba", "updated",
     "platforms", "developers", "publishers", "genres", "esrb_rating"}

\* Headers the source may have: every column, no id column, or a source
\* without some of the optional columns.
ColumnChoices ==
    {AllColumns,
     AllColumns \ {"id"},
     AllColumns \ {"name", "released", "playtime", "tba", "platforms", "esrb_rating"}}

\* A line of the CSV from the fields it names, each the text between two
\* commas; every other field is empty.
RowOf(fields) == [c \in AllColumns |-> IF c \in DOMAIN fields THEN fields[c] ELSE <<>>]

\* id 7, platforms "PC||Mac", developers "a-b|| ||a-b", genres "RPG",
\* esrb " E ", tba written tRuE, metrics written 0, 0.0, 3.9, 0.00 and 12
RowA ==
    RowOf([id |-> <<"7">>,
           name |-> <<"A", "\"", "b">>,
           slug |-> <<"a", "-", "b">>,
           released |-> <<"2", "0", "2", "0", "-", "0", "3", "-", "1", "5">>,
           website |-> <<"h", "t", "t", "p", ":", "/", "/", "x">>,
           tba |-> <<"t", "R", "u", "E">>,
           updated |-> <<"2", "0", "2", "1", "-", "0", "1", "-", "0", "2">>,
           platforms |-> <<"P", "C", "|", "|", "M", "a", "c">>,
           developers |-> <<"a", "-", "b", "|", "|", " ", "|", "|", "a", "-", "b">>,
           genres |-> <<"R", "P", "G">>,
           esrb_rating |-> <<" ", "E", " ">>,
           metacritic |-> <<"0">>,
           rating |-> <<"0", ".", "0">>,
           playtime |-> <<"0">>,
           achievements_count |-> <<"0", ".", "0">>,
           ratings_count |-> <<"3", ".", "9">>,
           suggestions_count |-> <<"0", ".", "0", "0">>,
           reviews_count |-> <<"1", "2">>])

\* id 8, platforms "PC", developers "!!" (nothing survives cleaning),
\* publishers "a  b", a malformed date, an invalid boolean
RowB ==
    RowOf([id |-> <<"8">>,
           name |-> <<"B">>,
           released |-> <<"1", "5", "/", "0", "3", "/", "2", "0", "2", "0">>,
           tba |-> <<"m", "a", "y", "b", "e">>,
           platforms |-> <<"P", "C">>,
           developers |-> <<"!", "!">>,
           publishers |-> <<"a", " ", " ", "b">>,
           esrb_rating |-> <<"E">>,
           metacritic |-> <<"a", "b", "c">>,
           rating |-> <<"4", ".", "5">>,
           added_status_yet |-> <<"-", "2", ".", "5">>])

\* no id; slug written NA; platforms "Xbox ||PC", genres "RPG||U+00E9"
RowC ==
    RowOf([name |-> <<"C">>,
           slug |-> <<"N", "A">>,
           platforms |-> <<"X", "b", "o", "x", " ", "|", "|", "P", "C">>,
           genres |-> <<"R", "P", "G", "|", "|", "U+00E9">>,
           playtime |-> <<"5">>])

\* id 9, a non-numeric value in the integer-typed playtime column,
\* whitespace-only platforms and esrb_rating, achievements_count written -0
RowD ==
    RowOf([id |-> <<"9">>,
           released |-> <<"2", "0", "2", "1", "-", "0", "2", "-", "3", "0">>,
           tba |-> <<"1">>,
           platforms |-> <<" ">>,
           esrb_rating |-> <<" ">>,
           metacritic |-> <<"7", "1">>,
           playtime |-> <<"a", "b", "c">>,
           achievements_count |-> <<"-", "0">>])

RowSamples == {RowA, RowB, RowC, RowD}

\* the line of a source that has only the columns cols
Project(r, cols) == [c \in cols |-> r[c]]

\* every sequence of at most n elements of S
SeqsUpTo(S, n) == UNION {[1..k -> S] : k \in 0..n}

\* the limit argument: None, or an int
LimitChoices == {<<>>, <<0>>, <<1>>, <<2>>, <<-1>>}

\* row.get(col, default)
Get(row, col, default) == IF col \in DOMAIN row THEN row[col] ELSE default

\* the default '' of row.get(col, '')
EmptyStr == Val(<<>>)

\* df.head(n): the first n rows, or all but the last -n when n < 0
head(rows, n) ==
    IF n >= 0 THEN SubSeq(rows, 1, IF n < Len(rows) THEN n ELSE Len(rows))
    ELSE SubSeq(rows, 1, IF Len(rows) + n > 0 THEN Len(rows) + n ELSE 0)

\* the test "if limit:" of line 84: None and 0 are both falsy
LimitGiven(l) == l # <<>> /\ l[1] # 0

\* lines 84-85
Limited(rows, l) == IF LimitGiven(l) THEN head(rows, l[1]) ELSE rows

----------------------------------------------------------------------------
(* pd.read_csv (line 82) and df.iterrows() (lines 109, 186): the fields of *)
(* the CSV become typed cells, column by column, and a row of typed cells  *)
(* becomes a Series of one dtype.  A cell is kept as the str() of its      *)
(* value.  The numeric fields of the model are plain decimals of a few     *)
(* digits: no exponent, no "inf", nothing beyond int64 or the 15 digits a  *)
(* float repr keeps, nothing below 0.0001 that repr writes with an         *)
(* exponent.                                                               *)

\* the fields pd.read_csv reads as NaN: its default na_values
NaTokens ==
    {<<>>,
     <<"#", "N", "/", "A">>,
     <<"#", "N", "/", "A", " ", "N", "/", "A">>,
     <<"#", "N", "A">>,
     <<"-", "1", ".", "#", "I", "N", "D">>,
     <<"-", "1", ".", "#", "Q", "N", "A", "N">>,
     <<"-", "N", "a", "N">>,
     <<"-", "n", "a", "n">>,
     <<"1", ".", "#", "I", "N", "D">>,
     <<"1", ".", "#", "Q", "N", "A", "N">>,
     <<"<", "N", "A", ">">>,
     <<"N", "/", "A">>,
     <<"N", "A">>,
     <<"N", "U", "L", "L">>,
     <<"N", "a", "N">>,
     <<"N", "o", "n", "e">>,
     <<"n", "/", "a">>,
     <<"n", "a", "n">>,
     <<"n", "u", "l", "l">>}

IsNaToken(s) == s \in NaTokens

\* a field the parser reads as an integer: a sign and digits, blanks around
IsIntToken(s) ==
    LET u == Unsigned(Strip(s))
    IN  u # <<>> /\ AllDigits(u)

\* a field the parser reads as a float: a sign, digits, at most one point
IsFloatToken(s) == FloatOk(s)

TrueTokens == {<<"T", "r", "u", "e">>, <<"T", "R", "U", "E">>, <<"t", "r", "u", "e">>}

FalseTokens ==
    {<<"F", "a", "l", "s", "e">>, <<"F", "A", "L", "S", "E">>,
     <<"f", "a", "l", "s", "e">>}

\* a field the parser reads as a bool: one of the default spellings, or any
\* other spelling of true / false, whatever the case of its letters
IsTrueToken(s) == s \in TrueTokens \/ Lower(s) = <<"t", "r", "u", "e">>

IsFalseToken(s) == s \in FalseTokens \/ Lower(s) = <<"f", "a", "l", "s", "e">>

IsBoolToken(s) == IsTrueToken(s) \/ IsFalseToken(s)

\* the fields of column c, one per line
ColumnTokens(rows, c) == {rows[k][c] : k \in 1..Len(rows)}

\* how the fields of a column are converted: the parser tries int64, then
\* float64, then bool, and keeps the text otherwise; a column with nothing
\* but NaN is float64
ColumnKind(tokens) ==
    LET given == {s \in tokens : ~IsNaToken(s)}
    IN  IF \A s \in given : IsIntToken(s)
        THEN (IF given = tokens /\ given # {} THEN "int" ELSE "float")
        ELSE IF \A s \in given : IsFloatToken(s) THEN "float"
        ELSE IF \A s \in given : IsBoolToken(s) THEN "bool"
        ELSE "text"

\* the dtype of the column: bools beside NaN are kept in an object column
ColumnDtype(tokens) ==
    LET kind == ColumnKind(tokens)
    IN  IF kind = "int" THEN "int64"
        ELSE IF kind = "float" THEN "float64"
        ELSE IF kind = "bool" /\ \A s \in tokens : ~IsNaToken(s) THEN "bool"
        ELSE "object"

\* iterrows: does the Series of a row come out as float64?  It does when
\* every column is numeric and one of them is float64.
RowsAreFloat(dtypes) == dtypes \subseteq {"int64", "float64"} /\ "float64" \in dtypes

\* digits without their trailing zeros
RECURSIVE DropTrailingZeros(_)
DropTrailingZeros(s) ==
    IF s # <<>> /\ s[Len(s)] = "0" THEN DropTrailingZeros(SubSeq(s, 1, Len(s) - 1))
    ELSE s

\* str() of the float a field denotes: "0.00" is 0.0, "12" is 12.0
FloatStr(s) ==
    LET frac == DropTrailingZeros(FracPart(s))
    IN  (IF Head(Strip(s)) = "-" THEN <<"-">> ELSE <<>>)
        \o NatStr(Num(IntPart(s)))
        \o <<".">>
        \o (IF frac = <<>> THEN <<"0">> ELSE frac)

\* str() of the int a field denotes, or of the float it is upcast to
IntTokenStr(s, asFloat) ==
    IntOfFloat(s) \o (IF asFloat THEN <<".", "0">> ELSE <<>>)

\* a column the parser reads as int64 before it makes room for NaN: every
\* field that is given is an integer, and the int64 values are then cast to
\* float64
UpcastFromInt(tokens) == \A s \in tokens : IsNaToken(s) \/ IsIntToken(s)

\* the cell a field of a column becomes
Cell(s, tokens, asFloat) ==
    LET kind == ColumnKind(tokens)
    IN  IF IsNaToken(s) THEN NaN
        ELSE IF kind = "int" THEN Val(IntTokenStr(s, asFloat))
        ELSE IF kind = "float"
        THEN Val(IF UpcastFromInt(tokens) THEN IntTokenStr(s, TRUE)
                 ELSE FloatStr(s))
        ELSE IF kind = "bool"
        THEN Val(IF IsTrueToken(s) THEN <<"T", "r", "u", "e">>
                 ELSE <<"F", "a", "l", "s", "e">>)
        ELSE Val(s)

\* the rows that iterrows yields for the frame pd.read_csv makes of the lines
read_csv(rows, cols) ==
    LET tokens == [c \in cols |-> ColumnTokens(rows, c)]
        asFloat == RowsAreFloat({ColumnDtype(tokens[c]) : c \in cols})
    IN  [k \in 1..Len(rows) |->
            [c \in cols |-> Cell(rows[k][c], tokens[c], asFloat)]]

----------------------------------------------------------------------------
(* The output: ttl_content is a sequence of blocks.  A block is the header,*)
(* a "# ..." comment line, an entity declaration or a game block; a game   *)
(* block carries its assertions in order.  An assertion [pred, obj, dt] is *)
(* a literal of datatype dt ("plain" when untyped) or, when dt is a        *)
(* category, a reference to the subject :<category>_<obj>.                 *)

\* a buggy order that declares the developers before the platforms
CategoryOrderSwapped == <<"developer", "platform", "publisher", "genre", "esrb">>

\* the order of the five entity loops
CategoryOrder == <<"platform", "developer", "publisher", "genre", "esrb">>

Categories == {"platform", "developer", "publisher", "genre", "esrb"}

\* the column each category is read from
CategoryColumn ==
    [platform |-> "platforms", developer |-> "developers",
     publisher |-> "publishers", genre |-> "genres", esrb |-> "esrb_rating"]

\* the predicate of a game's reference to an entity of each category
CategoryPredicate ==
    [platform |-> "schema:gamePlatform", developer |-> "schema:developer",
     publisher |-> "schema:publisher", genre |-> "schema:genre",
     esrb |-> "schema:contentRating"]

numeric_props ==
    << <<"metacritic", "schema:ratingValue", "decimal">>,
       <<"rating", "schema:bestRating", "decimal">>,
       <<"playtime", "vgo:averagePlayTime", "integer">>,
       <<"achievements_count", "rawg:achievementCount", "integer">>,
       <<"ratings_count", "schema:ratingCount", "integer">>,
       <<"suggestions_count", "rawg:suggestionCount", "integer">>,
       <<"game_series_count", "rawg:gameSeriesCount", "integer">>,
       <<"reviews_count", "schema:reviewCount", "integer">>,
       <<"added_status_yet", "rawg:addedStatusYet", "integer">>,
       <<"added_status_owned", "rawg:addedStatusOwned", "integer">>,
       <<"added_status_beaten", "rawg:addedStatusBeaten", "integer">>,
       <<"added_status_toplay", "rawg:addedStatusToPlay", "integer">>,
       <<"added_status_dropped", "rawg:addedStatusDropped", "integer">>,
       <<"added_status_playing", "rawg:addedStatusPlaying", "integer">> >>

HeaderBlock ==
    [kind |-> "header", cat |-> "", subj |-> <<>>, label |-> <<>>, props |-> <<>>]

CommentBlock(c) ==
    [kind |-> "comment", cat |-> c, subj |-> <<>>, label |-> <<>>, props |-> <<>>]

EntityBlock(c, subj, label) ==
    [kind |-> "entity", cat |-> c, subj |-> subj, label |-> label, props |-> <<>>]

GameBlock(subj, props) ==
    [kind |-> "game", cat |-> "", subj |-> subj, label |-> <<>>, props |-> props]

Assertion(pred, obj, dt) == [pred |-> pred, obj |-> obj, dt |-> dt]

\* how an f-string renders an optional str
FStr(r) == IF r.none THEN <<"N", "o", "n", "e">> ELSE r.s

\* the elements of a sequence
Range(s) == {s[k] : k \in 1..Len(s)}

\* every order in which a set can be iterated
Orders(S) ==
    {o \in [1..Cardinality(S) -> S] : \A a, b \in DOMAIN o : a # b => o[a] # o[b]}

\* concatenation of a sequence of sequences
RECURSIVE Flatten(_)
Flatten(ss) == IF ss = <<>> THEN <<>> ELSE Head(ss) \o Flatten(Tail(ss))

----------------------------------------------------------------------------
(* First pass (lines 107-137).                                             *)

\* a buggy first pass that records only the first name of each field
CollectedFirstOnly(row, c) ==
    IF c = "esrb"
    THEN LET esrb == Get(row, "esrb_rating", EmptyStr)
         IN  IF ~esrb.na /\ esrb.s # <<>> THEN {Strip(esrb.s)} ELSE {}
    ELSE LET names == parse_delimited_field(Get(row, CategoryColumn[c], EmptyStr))
         IN  IF names = <<>> THEN {} ELSE {names[1]}

\* the names one row adds to the set of category c
Collected(row, c) ==
    IF c = "esrb"
    THEN LET esrb == Get(row, "esrb_rating", EmptyStr)
         IN  IF ~esrb.na /\ esrb.s # <<>> THEN {Strip(esrb.s)} ELSE {}
    ELSE Range(parse_delimited_field(Get(row, CategoryColumn[c], EmptyStr)))

----------------------------------------------------------------------------
(* Entity phase (lines 142-180).                                           *)

\* a buggy declaration that is emitted even when cleaning leaves nothing
DeclarationUnchecked(c, name) ==
    LET clean == clean_uri_string(Val(name))
    IN  <<EntityBlock(c, FStr(clean), FStr(clean_literal_string(Val(name))))>>

\* the declaration block of one collected name, or nothing
Declaration(c, name) ==
    LET clean == clean_uri_string(Val(name))
    IN  IF Truthy(clean)
        THEN <<EntityBlock(c, clean.s, FStr(clean_literal_string(Val(name))))>>
        ELSE <<>>

\* the comment line of a category and its declarations, iterated in order o
EntitySection(c, o) ==
    <<CommentBlock(c)>> \o Flatten([k \in 1..Len(o) |-> Declaration(c, o[k])])

----------------------------------------------------------------------------
(* Game phase (lines 186-292).                                             *)

\* "not pd.isna(row.get(col)) and row[col] != ''"
Present(row, col) == ~Get(row, col, NaN).na /\ Get(row, col, NaN).s # <<>>

\* line 236: the guard of a numeric assertion
MetricGuard(value) == ~value.na /\ value.s # <<>> /\ value.s # <<"0", ".", "0">>

\* does line 238 raise for this metric of the row?
MetricRaises(row, m) ==
    /\ MetricGuard(Get(row, m[1], NaN))
    /\ m[3] = "integer"
    /\ ~FloatOk(Get(row, m[1], NaN).s)

\* lines 234-240 for one metric that does not raise
MetricAssertion(row, m) ==
    LET value == Get(row, m[1], NaN)
    IN  IF MetricGuard(value)
        THEN IF m[3] = "integer"
             THEN <<Assertion(m[2], IntOfFloat(value.s), "xsd:integer")>>
             ELSE <<Assertion(m[2], value.s, "xsd:decimal")>>
        ELSE <<>>

\* lines 253-283 for one multi-value category
References(row, c) ==
    LET names == parse_delimited_field(Get(row, CategoryColumn[c], EmptyStr))
        ref(name) == LET clean == clean_uri_string(Val(name))
                     IN  IF Truthy(clean)
                         THEN <<Assertion(CategoryPredicate[c], clean.s, c)>>
                         ELSE <<>>
    IN  Flatten([k \in 1..Len(names) |-> ref(names[k])])

\* lines 286-290
RatingReference(row) ==
    LET esrb == Get(row, "esrb_rating", EmptyStr)
        clean == clean_uri_string(Val(Strip(esrb.s)))
    IN  IF ~esrb.na /\ esrb.s # <<>> /\ Truthy(clean)
        THEN <<Assertion(CategoryPredicate["esrb"], clean.s, "esrb")>>
        ELSE <<>>

\* lines 198-290: the assertions of a row's game block after its rdf:type
GameAssertions(row) ==
    (IF ~Get(row, "id", NaN).na
     THEN <<Assertion("dcterms:identifier", row["id"].s, "plain")>> ELSE <<>>)
    \o (IF Present(row, "name")
        THEN <<Assertion("schema:name", FStr(clean_literal_string(row["name"])), "plain")>>
        ELSE <<>>)
    \o (IF Present(row, "slug")
        THEN <<Assertion("schema:alternateName",
                         FStr(clean_literal_string(row["slug"])), "plain")>>
        ELSE <<>>)
    \o (IF Truthy(format_date(Get(row, "released", NaN)))
        THEN <<Assertion("schema:datePublished",
                         format_date(Get(row, "released", NaN)).s, "xsd:date")>>
        ELSE <<>>)
    \o (IF Present(row, "website")
        THEN <<Assertion("schema:url", row["website"].s, "xsd:anyURI")>> ELSE <<>>)
    \o Flatten([k \in 1..Len(numeric_props) |-> MetricAssertion(row, numeric_props[k])])
    \o (IF ~Get(row, "tba", NaN).na
        THEN <<Assertion("rawg:toBeAnnounced",
                         IF Lower(row["tba"].s) \in {<<"t", "r", "u", "e">>, <<"1">>}
                         THEN <<"t", "r", "u", "e">>
                         ELSE <<"f", "a", "l", "s", "e">>,
                         "xsd:boolean")>>
        ELSE <<>>)
    \o (IF Present(row, "updated")
        THEN <<Assertion("dcterms:modified", row["updated"].s, "xsd:dateTime")>>
        ELSE <<>>)
    \o References(row, "platform")
    \o References(row, "developer")
    \o References(row, "publisher")
    \o References(row, "genre")
    \o RatingReference(row)

\* lines 190-192: is the row skipped?
SkipsRow(row) == Get(row, "id", EmptyStr).na

\* does the row's game block raise at line 238?
RowRaises(row) == \E k \in 1..Len(numeric_props) : MetricRaises(row, numeric_props[k])

----------------------------------------------------------------------------
(* generate_ttl_from_rawg_dataset as a state machine.                      *)

NoFile == [exists |-> FALSE, text |-> <<>>]

\* a destination left by an earlier run
OldFile == [exists |-> TRUE, text |-> <<CommentBlock("old")>>]

\* what open(output_file_path, 'w') and f.write(ttl_content) leave on disk
Written(content) == [exists |-> TRUE, text |-> content]

\* a buggy abort that still flushes what was accumulated
FileAfterRaiseFlushed(f, content) == Written(content)

\* the destination after an exception leaves generate: lines 295-296 never ran
FileAfterRaise(f, content) == f

Init ==
    /\ readable \in BOOLEAN
    /\ columns \in ColumnChoices
    /\ source \in SeqsUpTo({Project(r, columns) : r \in RowSamples}, MaxRows)
    /\ limit \in LimitChoices
    /\ file \in {NoFile, OldFile}
    /\ pc = "load"
    /\ df = <<>>
    /\ idx = 0
    /\ sets = [c \in Categories |-> {}]
    /\ ttl_content = <<>>
    /\ gameRows = <<>>
    /\ writes = 0
    /\ fin = NaN
    /\ fout = <<>>
    /\ fpc = "idle"

\* lines 82-105: read the source, truncate it, start the text and the sets
ReadCsv ==
    /\ pc = "load"
    /\ readable
    /\ df' = Limited(read_csv(source, columns), limit)
    /\ ttl_content' = <<HeaderBlock>>
    /\ sets' = [c \in Categories |-> {}]
    /\ idx' = 1
    /\ pc' = "collect"
    /\ UNCHANGED <<readable, columns, source, limit, gameRows, file, writes>>
    /\ UNCHANGED funVars

\* line 82 raises: the source cannot be read
ReadCsvRaises ==
    /\ pc = "load"
    /\ ~readable
    /\ pc' = "failed"
    /\ file' = FileAfterRaise(file, ttl_content)
    /\ UNCHANGED <<readable, columns, source, limit, df, idx, sets,
                   ttl_content, gameRows, writes>>
    /\ UNCHANGED funVars

\* lines 109-137: one iteration of the first pass
CollectRow ==
    /\ pc = "collect"
    /\ idx <= Len(df)
    /\ sets' = [c \in Categories |-> sets[c] \cup Collected(df[idx], c)]
    /\ idx' = idx + 1
    /\ UNCHANGED <<readable, columns, source, limit, pc, df,
                   ttl_content, gameRows, file, writes>>
    /\ UNCHANGED funVars

\* the first pass ends
CollectEnd ==
    /\ pc = "collect"
    /\ idx > Len(df)
    /\ pc' = "entities"
    /\ idx' = 1
    /\ UNCHANGED <<readable, columns, source, limit, df, sets,
                   ttl_content, gameRows, file, writes>>
    /\ UNCHANGED funVars

\* lines 142-180: the declarations of the next category, its set iterated in
\* whatever order the set yields
EmitEntities ==
    /\ pc = "entities"
    /\ idx <= Len(CategoryOrder)
    /\ \E o \in Orders(sets[CategoryOrder[idx]]) :
           ttl_content' = ttl_content \o EntitySection(CategoryOrder[idx], o)
    /\ idx' = idx + 1
    /\ UNCHANGED <<readable, columns, source, limit, pc, df, sets,
                   gameRows, file, writes>>
    /\ UNCHANGED funVars

\* line 184: the game phase starts
BeginGames ==
    /\ pc = "entities"
    /\ idx > Len(CategoryOrder)
    /\ ttl_content' = Append(ttl_content, CommentBlock("game"))
    /\ pc' = "games"
    /\ idx' = 1
    /\ UNCHANGED <<readable, columns, source, limit, df, sets,
                   gameRows, file, writes>>
    /\ UNCHANGED funVars

\* lines 190-192: a row without an id is passed over
GameRowSkipped ==
    /\ pc = "games"
    /\ idx <= Len(df)
    /\ SkipsRow(df[idx])
    /\ idx' = idx + 1
    /\ UNCHANGED <<readable, columns, source, limit, pc, df, sets,
                   ttl_content, gameRows, file, writes>>
    /\ UNCHANGED funVars

\* lines 194-292: the game block of one row
GameRow ==
    /\ pc = "games"
    /\ idx <= Len(df)
    /\ ~SkipsRow(df[idx])
    /\ ~RowRaises(df[idx])
    /\ ttl_content' = Append(ttl_content,
                             GameBlock(Get(df[idx], "id", EmptyStr).s,
                                       GameAssertions(df[idx])))
    /\ gameRows' = Append(gameRows, idx)
    /\ idx' = idx + 1
    /\ UNCHANGED <<readable, columns, source, limit, pc, df, sets, file, writes>>
    /\ UNCHANGED funVars

\* line 238 raises ValueError: generate is left with nothing written; the
\* text accumulated so far is a local that dies with the call
GameRowRaises ==
    /\ pc = "games"
    /\ idx <= Len(df)
    /\ ~SkipsRow(df[idx])
    /\ RowRaises(df[idx])
    /\ pc' = "failed"
    /\ file' = FileAfterRaise(file, ttl_content)
    /\ UNCHANGED <<readable, columns, source, limit, df, idx, sets,
                   ttl_content, gameRows, writes>>
    /\ UNCHANGED funVars

\* the game phase ends
GamesEnd ==
    /\ pc = "games"
    /\ idx > Len(df)
    /\ pc' = "write"
    /\ UNCHANGED <<readable, columns, source, limit, df, idx, sets,
                   ttl_content, gameRows, file, writes>>
    /\ UNCHANGED funVars

\* lines 295-296: the one write of the destination
WriteOutput ==
    /\ pc = "write"
    /\ file' = Written(ttl_content)
    /\ writes' = writes + 1
    /\ pc' = "done"
    /\ UNCHANGED <<readable, columns, source, limit, df, idx, sets,
                   ttl_content, gameRows>>
    /\ UNCHANGED funVars

Next ==
    \/ ReadCsv
    \/ ReadCsvRaises
    \/ CollectRow
    \/ CollectEnd
    \/ EmitEntities
    \/ BeginGames
    \/ GameRowSkipped
    \/ GameRow
    \/ GameRowRaises
    \/ GamesEnd
    \/ WriteOutput

Spec == Init /\ [][Next]_vars

----------------------------------------------------------------------------
(* The pure functions, called on their own.                                *)

\* generate at rest, for the specifications of the pure functions
GenerateIdle ==
    /\ readable = FALSE
    /\ columns = AllColumns
    /\ source = <<>>
    /\ limit = <<>>
    /\ file = NoFile
    /\ pc = "idle"
    /\ df = <<>>
    /\ idx = 0
    /\ sets = [c \in Categories |-> {}]
    /\ ttl_content = <<>>
    /\ gameRows = <<>>
    /\ writes = 0

ParseChars == {"a", "b", " ", "|"}

\* the example of the specification: "PC||  ||Xbox "
ParseExample ==
    <<"P", "C", "|", "|", " ", " ", "|", "|", "X", "b", "o", "x", " ">>

ParseInputs ==
    {NaN, Val(ParseExample)} \cup {Val(s) : s \in SeqsUpTo(ParseChars, MaxParseLen)}

InitParse ==
    /\ GenerateIdle
    /\ fin \in ParseInputs
    /\ fout = <<>>
    /\ fpc = "call"

\* a call of parse_delimited_field
ParseCall ==
    /\ fpc = "call"
    /\ fout' = parse_delimited_field(fin)
    /\ fpc' = "ret"
    /\ UNCHANGED fin
    /\ UNCHANGED genVars

NextParse == ParseCall

SpecParse == InitParse /\ [][NextParse]_vars

CleanChars == {"a", "1", "_", " ", "\t", "-", "!", "U+00E9"}

CleanInputs == {NaN} \cup {Val(s) : s \in SeqsUpTo(CleanChars, MaxCleanLen)}

InitClean ==
    /\ GenerateIdle
    /\ fin \in CleanInputs
    /\ fout = None
    /\ fpc = "call"

\* a call of clean_uri_string
CleanCall ==
    /\ fpc = "call"
    /\ fout' = clean_uri_string(fin)
    /\ fpc' = "ret"
    /\ UNCHANGED fin
    /\ UNCHANGED genVars

NextClean == CleanCall

SpecClean == InitClean /\ [][NextClean]_vars

----------------------------------------------------------------------------
(* What the claims say, stated from the text of the claims and not from the *)
(* code: the segments of a delimited value by position, trimming by first   *)
(* and last non-blank position, cleaning character by character.            *)

\* the first position of the run of "|" that position k lies in
RunStart(s, k) ==
    CHOOSE j \in 1..k :
        /\ \A i \in j..k : s[i] = "|"
        /\ (j = 1 \/ s[j - 1] # "|")

\* the positions where an occurrence of "||" starts, read from the left
DelimStarts(s) ==
    {k \in 1..(Len(s) - 1) :
        s[k] = "|" /\ s[k + 1] = "|" /\ (k - RunStart(s, k)) % 2 = 0}

\* the i-th smallest element of a set of numbers
Nth(S, i) == CHOOSE k \in S : Cardinality({j \in S : j < k}) = i - 1

\* the pieces of s between the occurrences of "||"
Segments(s) ==
    LET D == DelimStarts(s)
        n == Cardinality(D)
    IN  [i \in 1..(n + 1) |->
            SubSeq(s,
                   IF i = 1 THEN 1 ELSE Nth(D, i - 1) + 2,
                   IF i = n + 1 THEN Len(s) ELSE Nth(D, i) - 1)]

\* p without the whitespace around it
Trimmed(p) ==
    LET solid == {k \in 1..Len(p) : ~IsSpace(p[k])}
    IN  IF solid = {} THEN <<>>
        ELSE SubSeq(p, Nth(solid, 1), Nth(solid, Cardinality(solid)))

\* the trimmed, non-empty pieces of a value, in their order
TrimmedSegments(v) ==
    IF v.na THEN <<>>
    ELSE LET segs == Segments(v.s)
         IN  SelectSeq([i \in 1..Len(segs) |-> Trimmed(segs[i])],
                       LAMBDA piece : piece # <<>>)

\* C4: parse_delimited_field returns the pieces between the occurrences of
\* "||", each trimmed, the empty ones dropped, in their original order with
\* duplicates kept; a value without "||" that is not blank yields the one
\* trimmed value; a missing, empty or blank value yields the empty sequence.
C4_ParseDelimited ==
    fpc = "ret" =>
        /\ fout = TrimmedSegments(fin)
        /\ (fin.na \/ Trimmed(fin.s) = <<>>) => fout = <<>>
        /\ (~fin.na /\ DelimStarts(fin.s) = {} /\ Trimmed(fin.s) # <<>>)
               => fout = <<Trimmed(fin.s)>>

\* the example "PC||  ||Xbox " has been parsed to <<"PC", "Xbox">>
C4_Witness ==
    /\ fpc = "ret"
    /\ fin = Val(ParseExample)
    /\ fout = << <<"P", "C">>, <<"X", "b", "o", "x">> >>

\* letters, digits and the underscore
IsLetterDigitUnderscore(c) ==
    c \in (AsciiLetters \cup NonAsciiLetters \cup Digits \cup {"_"})

\* C7 as claimed: every character that is not a letter, digit, underscore or
\* whitespace is removed, so no hyphen survives; every run of whitespace
\* becomes one underscore; the result is percent-encoded; missing or empty
\* text yields none.
C7_AsClaimed ==
    fpc = "ret" =>
        IF fin.na \/ fin.s = <<>> THEN fout = None
        ELSE /\ ~fout.none
             /\ "-" \notin Range(fout.s)
             /\ fout.s = quote(CollapseSpace(
                    SelectSeq(fin.s, LAMBDA c : IsLetterDigitUnderscore(c) \/ IsSpace(c))))

\* what position k of s contributes to the cleaned identifier
CleanedAt(s, k) ==
    LET kept(j) == IsLetterDigitUnderscore(s[j]) \/ s[j] = "-" \/ IsSpace(s[j])
        solid(j) == kept(j) /\ ~IsSpace(s[j])
        before == {j \in 1..(k - 1) : kept(j)}
    IN  IF solid(k)
        THEN (IF s[k] \in Unreserved THEN <<s[k]>> ELSE PercentEncode(s[k]))
        ELSE IF /\ IsSpace(s[k])
                /\ before # {}
                /\ solid(Nth(before, Cardinality(before)))
                /\ \E j \in (k + 1)..Len(s) : solid(j)
        THEN <<"_">>
        ELSE <<>>

\* C7, amended: every character that is not a letter, digit, underscore,
\* whitespace or hyphen is removed; whitespace at the start and at the end of
\* what remains is dropped and every other run of whitespace becomes one
\* underscore; the result is percent-encoded; missing or empty text yields
\* none.
C7_CleanForUri ==
    fpc = "ret" =>
        IF fin.na \/ fin.s = <<>> THEN fout = None
        ELSE /\ ~fout.none
             /\ fout.s = Flatten([k \in 1..Len(fin.s) |-> CleanedAt(fin.s, k)])

\* a text with leading whitespace and a hyphen has been cleaned, and the
\* hyphen is in the identifier
C7_Witness ==
    /\ fpc = "ret"
    /\ ~fin.na /\ Len(fin.s) = 3
    /\ IsSpace(fin.s[1]) /\ fin.s[2] = "-" /\ fin.s[3] = "U+00E9"
    /\ fout = Some(<<"-", "%", "C", "3", "%", "A", "9">>)

----------------------------------------------------------------------------
(* The claims about generate.                                              *)

\* the game blocks written so far, in order
GameBlocks == SelectSeq(ttl_content, LAMBDA b : b.kind = "game")

\* the declarations of category c written so far, in order
Declarations(c) == SelectSeq(ttl_content, LAMBDA b : b.kind = "entity" /\ b.cat = c)

\* the source has been loaded
Loaded == pc \in {"collect", "entities", "games", "write", "done"}
              \/ (pc = "failed" /\ readable)

\* the entity phase is over
EntitiesDone == pc \in {"games", "write", "done"} \/ (pc = "failed" /\ readable)

\* the rows of df the game phase has been through
HandledRows ==
    IF pc = "games" THEN 1..(idx - 1)
    ELSE IF pc \in {"write", "done"} THEN 1..Len(df)
    ELSE IF pc = "failed" /\ readable THEN 1..idx
    ELSE {}

\* the row has no identifier: the id column is absent, or the cell is empty
IdMissing(row) == "id" \notin DOMAIN row \/ row["id"].na \/ row["id"].s = <<>>

\* C1: every entity reference inside a game block names a subject that an
\* entity declaration block of the same category declares.
C1_ReferentialIntegrity ==
    \A i \in 1..Len(ttl_content) :
        ttl_content[i].kind = "game" =>
            \A p \in Range(ttl_content[i].props) :
                p.dt \in Categories =>
                    \E j \in 1..Len(ttl_content) :
                        /\ ttl_content[j].kind = "entity"
                        /\ ttl_content[j].cat = p.dt
                        /\ ttl_content[j].subj = p.obj

\* a finished run wrote a game block that refers to two platforms, a
\* developer, a genre and a rating
C1_Witness ==
    /\ pc = "done"
    /\ \E i \in 1..Len(ttl_content) :
           /\ ttl_content[i].kind = "game"
           /\ Cardinality({p \in Range(ttl_content[i].props) : p.dt = "platform"}) = 2
           /\ \A c \in {"developer", "genre", "esrb"} :
                  \E p \in Range(ttl_content[i].props) : p.dt = c

\* the game blocks of a run over the given lines that reaches its end
BlocksOf(lines) ==
    LET rows == SelectSeq(read_csv(lines, columns), LAMBDA row : ~SkipsRow(row))
    IN  [k \in 1..Len(rows) |->
            GameBlock(Get(rows[k], "id", EmptyStr).s, GameAssertions(rows[k]))]

\* the line has an identifier: an id column, and an id field that is not empty
LineHasId(line) == "id" \in DOMAIN line /\ ~IsNaToken(line["id"])

\* C2 as claimed: a row whose identifier is missing (an empty id, or no id
\* column in the source) gets no game block, and the game blocks of a
\* finished run over the whole source are those of a run over the source
\* without such rows.
C2_MissingIdNoBlock ==
    /\ \A k \in HandledRows :
           IdMissing(df[k]) => k \notin Range(gameRows)
    /\ (pc = "done" /\ limit = <<>>) =>
           GameBlocks = BlocksOf(SelectSeq(source, LineHasId))

\* the names of category c that the claim has one row contribute
ClaimedNames(row, c) ==
    LET col == CategoryColumn[c]
    IN  IF col \notin DOMAIN row THEN {}
        ELSE IF c = "esrb"
        THEN (IF row[col].na \/ row[col].s = <<>> THEN {} ELSE {Trimmed(row[col].s)})
        ELSE Range(TrimmedSegments(row[col]))

\* the cleaned identifier of a name, position by position
CleanedName(n) == Flatten([k \in 1..Len(n) |-> CleanedAt(n, k)])

\* the platform references of a game block, in order
PlatformRefs(b) ==
    LET refs == SelectSeq(b.props, LAMBDA p : p.dt = "platform")
    IN  [k \in 1..Len(refs) |-> refs[k].obj]

\* the two-row example: platforms "PC||Mac" and "PC", both rows with an id
IsExample ==
    /\ Len(df) = 2
    /\ "platforms" \in columns /\ "id" \in columns
    /\ ~IdMissing(df[1]) /\ ~IdMissing(df[2])
    /\ df[1]["platforms"] = Val(<<"P", "C", "|", "|", "M", "a", "c">>)
    /\ df[2]["platforms"] = Val(<<"P", "C">>)

\* C3: once the entity phase is over, each category has exactly one
\* declaration per distinct raw name collected over all rows whose cleaned
\* identifier is not empty; the example rows "PC||Mac" and "PC" give two
\* platform declarations and two game blocks, the first referring to PC and
\* Mac and the second to PC alone.
C3_OneDeclarationPerName ==
    /\ EntitiesDone =>
           \A c \in Categories :
               LET names == UNION {ClaimedNames(df[k], c) : k \in 1..Len(df)}
                   want == {n \in names : CleanedName(n) # <<>>}
                   decls == Declarations(c)
               IN  /\ Len(decls) = Cardinality(want)
                   /\ {<<decls[j].subj, decls[j].label>> : j \in 1..Len(decls)}
                          = {<<CleanedName(n), FStr(clean_literal_string(Val(n)))>> :
                                n \in want}
    /\ (pc = "done" /\ IsExample) =>
           /\ {Declarations("platform")[j].subj : j \in 1..Len(Declarations("platform"))}
                  = {<<"P", "C">>, <<"M", "a", "c">>}
           /\ Len(Declarations("platform")) = 2
           /\ Len(GameBlocks) = 2
           /\ PlatformRefs(GameBlocks[1]) = << <<"P", "C">>, <<"M", "a", "c">> >>
           /\ PlatformRefs(GameBlocks[2]) = << <<"P", "C">> >>

\* the example has run to the end; its first row also names one developer
\* twice, which is declared once
C3_Witness ==
    /\ pc = "done"
    /\ IsExample
    /\ Len(parse_delimited_field(df[1]["developers"])) = 2
    /\ Len(Declarations("developer")) = 1
    /\ Len(Declarations("platform")) = 2

\* C5 as claimed: with a limit given, 0 included, at most limit rows are
\* processed, taken from the start of the source in order; with no limit all
\* rows are processed.
C5_LimitBoundsRows ==
    Loaded =>
        /\ (limit # <<>> /\ limit[1] >= 0) =>
               /\ Len(df) <= limit[1]
               /\ df = SubSeq(read_csv(source, columns), 1, Len(df))
        /\ limit = <<>> => df = read_csv(source, columns)

\* C6 as claimed: only a source that cannot be read makes generate fail.
C6_OnlySourceAccessFatal == pc = "failed" => ~readable

\* C8 as claimed: for a handled row with an identifier, each metric has an
\* assertion in the row's game block iff its value is present, non-empty and
\* not written "0.0"; a value written "0" is asserted as 0 with the field's
\* type.
C8_MetricEmission ==
    \A k \in HandledRows :
        ~IdMissing(df[k]) =>
            \A m \in 1..Len(numeric_props) :
                LET value == Get(df[k], numeric_props[m][1], NaN)
                    expected == ~value.na /\ value.s # <<>>
                                   /\ value.s # <<"0", ".", "0">>
                    found == {p \in UNION {Range(GameBlocks[j].props) :
                                              j \in {i \in 1..Len(gameRows) :
                                                         gameRows[i] = k}} :
                                 p.pred = numeric_props[m][2]}
                IN  /\ (found # {}) <=> expected
                    /\ (expected /\ value.s = <<"0">>) =>
                           found = {Assertion(numeric_props[m][2], <<"0">>,
                                              IF numeric_props[m][3] = "integer"
                                              THEN "xsd:integer" ELSE "xsd:decimal")}

\* where a block belongs in the output: the header, the five categories in
\* the order Platform, Developer, Publisher, Genre, EsrbRating, the games
Rank(b) ==
    IF b.kind = "header" THEN 0
    ELSE IF b.kind = "game" \/ b.cat = "game" THEN 6
    ELSE IF b.cat = "platform" THEN 1
    ELSE IF b.cat = "developer" THEN 2
    ELSE IF b.cat = "publisher" THEN 3
    ELSE IF b.cat = "genre" THEN 4
    ELSE 5

\* C9: the text is the header, then the entity declarations by category in
\* the fixed order, then the game blocks in source row order; no declaration
\* follows a game block; the file written is that text.
C9_OutputOrdering ==
    /\ Loaded => (ttl_content # <<>> /\ ttl_content[1].kind = "header")
    /\ \A i, j \in 1..Len(ttl_content) :
           i < j => /\ Rank(ttl_content[i]) <= Rank(ttl_content[j])
                    /\ ttl_content[j].kind # "header"
    /\ Len(GameBlocks) = Len(gameRows)
    /\ \A i, j \in 1..Len(gameRows) : i < j => gameRows[i] < gameRows[j]
    /\ \A j \in 1..Len(gameRows) :
           GameBlocks[j].subj = Get(df[gameRows[j]], "id", EmptyStr).s
    /\ pc \in {"write", "done"} =>
           /\ Range(gameRows) = {k \in 1..Len(df) : ~Get(df[k], "id", EmptyStr).na}
           /\ \A c \in Categories :
                  \E i \in 1..Len(ttl_content) :
                      ttl_content[i].kind = "comment" /\ ttl_content[i].cat = c
    /\ pc = "done" => file = [exists |-> TRUE, text |-> ttl_content]

\* a finished run wrote declarations of three categories and two game blocks
C9_Witness ==
    /\ pc = "done"
    /\ Len(GameBlocks) = 2
    /\ GameBlocks[1].subj # GameBlocks[2].subj
    /\ \A c \in {"platform", "publisher", "esrb"} : Declarations(c) # <<>>

\* C10: the destination is written exactly once, when the header, the
\* declarations and the game blocks are all accumulated; a run that fails,
\* on loading or later, leaves the destination as it was.
C10_SingleWrite ==
    /\ [](pc = "done" => writes = 1)
    /\ [](pc # "done" => writes = 0)
    /\ [][(file' # file \/ writes' # writes) =>
              /\ pc = "write" /\ pc' = "done"
              /\ idx > Len(df)
              /\ \E i \in 1..Len(ttl_content) :
                     ttl_content[i].kind = "comment" /\ ttl_content[i].cat = "game"
              /\ file' = [exists |-> TRUE, text |-> ttl_content]]_vars

\* a run failed in the game phase, after declarations were accumulated, and
\* the destination of an earlier run is as it was
C10_Witness ==
    /\ pc = "failed"
    /\ readable
    /\ \E i \in 1..Len(ttl_content) : ttl_content[i].kind = "entity"
    /\ file = OldFile
    /\ writes = 0

====
